---- MODULE Spec2Model ----
(***************************************************************************)
(* A state-machine model of the fart-generator audio pipeline:             *)
(*   - AudioParameters (RFC-002 4.2), the pydantic model and its ranges;   *)
(*   - AudioGenerationEngine (RFC-002 4.4): sample cache, generate() and   *)
(*     its stages, drawing from the two process-global random generators   *)
(*     (np.random and random);                                             *)
(*   - GenerationWebSocketHandler.handle_generation (RFC-003 5.2) and the  *)
(*     status messages it sends.                                           *)
(*                                                                         *)
(* Units: durations and reverb/distortion amounts are in hundredths (4.5 s *)
(* is 450, 10.01 s is 1001, reverb 0.5 is 50); lengths are sample counts.  *)
(* A waveform is modelled by its length and by its provenance: the stored  *)
(* samples it was built from and the generator states its random content   *)
(* was drawn from.  All numeric stages are deterministic functions of      *)
(* these, so equal provenance means equal samples.                         *)
(***************************************************************************)
EXTENDS Integers, Sequences, FiniteSets, TLC

VARIABLES
    candidate,      \* field values handed to the AudioParameters constructor
    constructed,    \* outcome of that construction
    threaded,       \* deployment: generate() called from worker threads
    sample_cache,   \* AudioGenerationEngine.sample_cache
    np_state,       \* state of the process-global np.random generator
    py_state,       \* state of the process-global random generator
    running,        \* render currently inside the synchronous generate() call
    calls,          \* number of generate() calls / requests started so far
    pc,             \* position of each handle_generation coroutine
    interp,         \* interpretation returned by ClaudeService.interpret_prompt
    params,         \* AudioParameters of each render
    gpc,            \* position of each render inside generate()
    base,           \* base_audio of each render
    layers,         \* synthesis_layers of each render
    mixed,          \* mixed_audio of each render
    audio,          \* final_audio returned by generate()
    attempts,       \* calls of _apply_transformations made by each render
    raised,         \* exception that left generate(), if any
    events,         \* status messages sent on each websocket, in order
    artifact,       \* audio_url obtained from _save_and_upload
    cancel,         \* caller's cancellation signal for each render
    cancel_at,      \* stages completed when the signal was raised
    overdue,        \* the render's wall-clock budget has run out
    redis,          \* ClaudeService.redis: cache key -> stored JSON text
    redis_up,       \* the redis server answers
    cached_by_text, \* (prompt, context JSON) -> interpretation obtained from
                    \* the API and cached within the TTL
    cached_by_dict, \* the same, by (prompt, context as a dict)
    last_call,      \* the last interpret_prompt call and its outcome
    probe           \* a numeric helper called on its own on concrete sample
                    \* values: the call, its arguments and what it returned

vars == << candidate, constructed, threaded, sample_cache, np_state, py_state,
           running, calls, pc, interp, params, gpc, base, layers, mixed, audio,
           attempts, raised, events, artifact, cancel, cancel_at, overdue,
           redis, redis_up, cached_by_text, cached_by_dict, last_call,
           probe >>

None == "none"

----------------------------------------------------------------------------
(* Bounds of the model *)

\* modulus of the modelled generator states
RngMod == 16
\* seeds are 1..MaxSeed
MaxSeed == 2
\* generate() calls / websocket requests per behaviour
MaxCalls == 3

----------------------------------------------------------------------------
(* Program constants *)

DefaultSampleRate == 44100
MinDuration == 50
MaxDuration == 1000
MaxWetness == 10
MaxPitch == 10
MaxAmount == 100

Types == {"squeaker", "rumbler", "stutterer", "classic", "wet"}

Renders == {1, 2}

----------------------------------------------------------------------------
(* Arithmetic helpers *)

Min(a, b) == IF a <= b THEN a ELSE b
Max(a, b) == IF a >= b THEN a ELSE b
Abs(a) == IF a >= 0 THEN a ELSE -a

RECURSIVE Gcd(_, _)
Gcd(a, b) == IF b = 0 THEN a ELSE Gcd(b, a % b)

\* Python's round() of the rational a / b (a >= 0, b > 0): half to even.
RoundDiv(a, b) ==
    LET q == a \div b
        r == a % b
    IN  IF 2 * r < b THEN q
        ELSE IF 2 * r > b THEN q + 1
        ELSE IF q % 2 = 0 THEN q ELSE q + 1

----------------------------------------------------------------------------
(* AudioParameters *)

\* Field(ge=..., le=...) constraints of the pydantic model.  randomness_seed
\* and sample_rate carry no constraint.
FieldsValidNoType(c) ==
    /\ c.duration >= MinDuration /\ c.duration <= MaxDuration
    /\ c.wetness >= 0 /\ c.wetness <= MaxWetness
    /\ c.pitch >= 0 /\ c.pitch <= MaxPitch
    /\ c.reverb_amount >= 0 /\ c.reverb_amount <= MaxAmount
    /\ c.distortion >= 0 /\ c.distortion <= MaxAmount

AudioParametersValid(c) ==
    /\ FieldsValidNoType(c)
    /\ c.type \in Types

\* AudioParameters(**fields): the model instance holding the fields as given,
\* or a ValidationError.
AudioParameters(c) ==
    [ error |-> IF AudioParametersValid(c) THEN None ELSE "ValidationError",
      value |-> c ]

CandDurations == {49, 50, 450, 1000, 1001}
CandWetness == {-1, 0, 10, 11}
CandPitch == {0, 11}
CandTypes == {"classic", "wet", "loud"}
CandAmounts == {0, 100, 101}
CandSampleRates == {-1, 0, 44100}

Candidates ==
    [ duration : CandDurations, wetness : CandWetness, pitch : CandPitch,
      type : CandTypes, reverb_amount : CandAmounts, distortion : {0},
      randomness_seed : {1}, sample_rate : CandSampleRates ]

----------------------------------------------------------------------------
(* The process-global random generators                                    *)
(* np.random and random are each one generator per process.  A generator   *)
(* is modelled by its state: seeding sets the state from the seed, every   *)
(* draw returns a value determined by the state and advances it.           *)

Seeds == 1 .. MaxSeed

SeedState(seed) == seed % RngMod

\* One draw moves the generator to its next state.
Advance(s) == (s + 1) % RngMod

\* The state after n draws.
AdvanceN(s, n) == (s + n) % RngMod

----------------------------------------------------------------------------
(* Sample library *)

SamplesPerHundredth == DefaultSampleRate \div 100

Sample(id, hundredths, finite) ==
    [ id |-> id, len |-> hundredths * SamplesPerHundredth, finite |-> finite ]

\* SAMPLE_LIBRARY as read by _load_samples; the recordings are 0.5 s to 5 s.
SAMPLE_LIBRARY ==
    [ squeaker  |-> << Sample("squeaker_01", 50, TRUE),
                       Sample("squeaker_02", 80, TRUE),
                       Sample("squeaker_03", 100, TRUE) >>,
      rumbler   |-> << Sample("rumbler_01", 200, TRUE),
                       Sample("rumbler_02", 300, TRUE),
                       Sample("rumbler_03", 500, TRUE) >>,
      stutterer |-> << Sample("stutterer_01", 150, TRUE),
                       Sample("stutterer_02", 250, TRUE) >>,
      classic   |-> << Sample("classic_01", 100, TRUE),
                       Sample("classic_02", 200, TRUE),
                       Sample("classic_03", 250, TRUE),
                       Sample("classic_04", 300, TRUE) >>,
      wet       |-> << Sample("wet_01", 150, TRUE),
                       Sample("wet_02", 300, TRUE) >> ]

\* The same library with one float recording that holds a non-finite value;
\* _load_samples stores whatever sf.read returns.
CorruptLibrary ==
    [ SAMPLE_LIBRARY EXCEPT
        !.stutterer = << Sample("stutterer_01", 150, TRUE),
                         Sample("stutterer_02", 250, FALSE) >> ]

Libraries == { SAMPLE_LIBRARY, CorruptLibrary }

\* SAMPLE_LIBRARY configured with a category that lists no file:
\* _load_samples stores the empty list.
EmptyCategoryLibrary == [ SAMPLE_LIBRARY EXCEPT !.wet = << >> ]

\* SAMPLE_LIBRARY with the wet recordings of the shortest length the
\* sample requirements allow (0.5 s).
ShortSampleLibrary ==
    [ SAMPLE_LIBRARY EXCEPT
        !.wet = << Sample("wet_01", 50, TRUE), Sample("wet_02", 50, TRUE) >> ]

----------------------------------------------------------------------------
(* Stage functions of AudioGenerationEngine *)

\* Variant: the samples drawn with replacement, so that draws can coincide.
SelectedIndicesWithReplacement(n, py) ==
    LET num == 1 + (py % Min(3, n))
        start == Advance(py) % n
    IN  { ((start + 2 * i) % n) + 1 : i \in 0 .. (num - 1) }

\* _select_and_load_samples: random.randint(1, min(3, n)) samples drawn by
\* random.sample; the indices selected, from the state of `random`.
SelectedIndices(n, py) ==
    LET num == 1 + (py % Min(3, n))
        start == Advance(py) % n
    IN  { ((start + i) % n) + 1 : i \in 0 .. (num - 1) }

MaxOf(S) == CHOOSE x \in S : \A y \in S : y <= x

\* _overlap_samples: the selected samples aligned at time 0, summed and
\* scaled by 1 / count (scale holds count).
overlap_samples(selected) ==
    [ src    |-> { s.id : s \in selected },
      len    |-> MaxOf({ s.len : s \in selected }),
      finite |-> \A s \in selected : s.finite,
      cached |-> FALSE, transformed |-> FALSE, semitones |-> 0, cutoff |-> 0,
      scale  |-> Cardinality(selected),
      steps  |-> << "overlap" >> ]

\* The base audio: the cached array itself for one sample, the overlap of
\* the selected ones otherwise.
select_and_load_samples(samples, py) ==
    LET idx == SelectedIndices(Len(samples), py)
        selected == { samples[i] : i \in idx }
    IN  IF Cardinality(idx) = 1
        THEN LET s == CHOOSE x \in selected : TRUE
             IN  [ src |-> { s.id }, len |-> s.len, finite |-> s.finite,
                   cached |-> TRUE, transformed |-> FALSE, semitones |-> 0,
                   cutoff |-> 0, scale |-> 1, steps |-> << >> ]
        ELSE overlap_samples(selected)

\* duration_samples = int(params.duration * sr)
DurationSamples(p) == (p.duration * p.sample_rate) \div 100

BubblingThreshold == 5

\* Variant: the comparison written >=.
HasBubblingFromThreshold(p) == p.wetness >= BubblingThreshold

HasBubbling(p) == p.wetness > BubblingThreshold

BubblesPerWetness == 5

BubbleMargin == 1000

\* random.randint(a, b) drawn in generator state s: the states spread over
\* the whole of a .. b, both ends included.
RandInt(a, b, s) == a + (s * (b - a)) \div (RngMod - 1)

MinBubbleLength == 100

MaxBubbleLength == 500

\* Variant: the position drawn from the whole buffer, its end included.
BubblePositionAnywhere(length, s) == RandInt(0, length, s)

\* pos = random.randint(0, length - 1000)
BubblePosition(length, s) == RandInt(0, length - BubbleMargin, s)

\* One pass of the loop of _generate_bubbling in generator state s: the
\* position and length drawn and the slice audio[pos:end_pos] added to.
Bubble(length, s) ==
    LET pos == BubblePosition(length, s)
        bubble_length == RandInt(MinBubbleLength, MaxBubbleLength, Advance(s))
    IN  [ pos |-> pos, bubble_length |-> bubble_length,
          end_pos |-> Min(pos + bubble_length, length) ]

\* _generate_bubbling: int(wetness * 5) bubbles, three draws each.
generate_bubbling(length, wetness, py) ==
    [ i \in 1 .. (wetness * BubblesPerWetness) |->
        Bubble(length, AdvanceN(py, 3 * (i - 1))) ]

\* _generate_synthesis_layers: noise and rumble always, bubbling if wet.
generate_synthesis_layers(p, np, py) ==
    LET n == DurationSamples(p)
        noise  == [ kind |-> IF p.wetness > BubblingThreshold
                             THEN "pink" ELSE "white",
                    len |-> n, np |-> np ]
        np1    == Advance(np)
        rumble == [ pitch |-> p.pitch, len |-> n, np |-> np1, py |-> py ]
        py1    == Advance(py)
        bubbling == [ bubbles |-> p.wetness * BubblesPerWetness,
                      bursts |-> generate_bubbling(n, p.wetness, py1),
                      len |-> n, py |-> py1 ]
    IN  IF HasBubbling(p)
        THEN [ noise |-> noise, rumble |-> rumble, bubbling |-> bubbling ]
        ELSE [ noise |-> noise, rumble |-> rumble ]

\* Generator states after _generate_synthesis_layers: one normal() vector
\* and three uniform() phases from np.random; one uniform() from random for
\* the rumble and three draws per bubble.
NpAfterSynthesis(p, np) == AdvanceN(np, 4)

PyAfterSynthesis(p, py) ==
    IF HasBubbling(p)
    THEN AdvanceN(py, 1 + 3 * p.wetness * BubblesPerWetness)
    ELSE Advance(py)

\* The exception _generate_synthesis_layers raises, or None.
SynthesisError(p) ==
    IF DurationSamples(p) < 0 THEN "ValueError"
    ELSE IF p.sample_rate = 0 THEN "ZeroDivisionError"
    ELSE IF HasBubbling(p) /\ DurationSamples(p) - BubbleMargin < 0
         THEN "ValueError"
    ELSE None

\* librosa.effects.time_stretch(audio, rate): rate > 1 shortens; the result
\* holds round(len / rate) samples.  rate is the fraction num / den.
TimeStretchLen(len, num, den) ==
    LET g == Gcd(num, den)
    IN  RoundDiv(len * (den \div g), num \div g)

\* stretch_factor = params.duration / (len(audio) / params.sample_rate),
\* passed as rate.
StretchedLen(len, p) ==
    TimeStretchLen(len, p.duration * p.sample_rate, 100 * len)

PitchShiftSemitones(p) == (p.pitch - 5) * 2

CutoffFreq(p) == 800 + (10 - p.wetness) * 200

\* Variant: the comparison written >=.
WetnessFilterAppliesFromFive(p) == p.wetness >= 5

\* if params.wetness > 5: the low-pass filter is applied
WetnessFilterApplies(p) == p.wetness > 5

\* signal.butter needs 0 < cutoff / nyquist < 1.
FilterDesignFails(p) == 2 * CutoffFreq(p) >= p.sample_rate

\* Variant: librosa accepts a buffer that is not finite everywhere.
TransformErrorUnchecked(b, p) ==
    IF p.sample_rate = 0 \/ b.len = 0 THEN "ZeroDivisionError"
    ELSE IF WetnessFilterApplies(p) /\ FilterDesignFails(p) THEN "ValueError"
    ELSE None

\* The exception _apply_transformations raises, or None.  librosa rejects a
\* buffer that is not finite everywhere.
TransformError(b, p) ==
    IF p.sample_rate = 0 \/ b.len = 0 THEN "ZeroDivisionError"
    ELSE IF ~b.finite THEN "ParameterError"
    ELSE IF WetnessFilterApplies(p) /\ FilterDesignFails(p) THEN "ValueError"
    ELSE None

\* _resize_audio: pad with zeros at the tail or truncate.
resize_audio(layer, target_length) ==
    [ layer EXCEPT !.len = target_length ]

\* librosa.effects.time_stretch(audio, rate=stretch_factor): a new array
\* of the stretched length.
time_stretch(b, p) ==
    [ b EXCEPT !.len = StretchedLen(b.len, p), !.cached = FALSE,
               !.steps = Append(@, "time_stretch") ]

\* 2^(n_steps / 12) for the even n_steps in -10 .. 10, as a ratio of two
\* integers below 101 (1.1224, 1.26, 1.4143, 1.5873, 1.7818).
SemitoneRatio(n_steps) ==
    LET up == << << 55, 49 >>, << 63, 50 >>, << 99, 70 >>, << 100, 63 >>,
                 << 98, 55 >> >>
    IN  IF n_steps = 0 THEN << 1, 1 >>
        ELSE IF n_steps > 0 THEN up[n_steps \div 2]
        ELSE << up[(-n_steps) \div 2][2], up[(-n_steps) \div 2][1] >>

\* The length librosa's pitch_shift reaches before it fixes the length: the
\* input stretched by rate = 2^(-n_steps / 12), round(len / rate) samples,
\* then resampled from sr / rate to sr, ceil(n * rate) samples.
ResampledLen(len, n_steps) ==
    LET ratio == SemitoneRatio(n_steps)
        stretched == RoundDiv(len * ratio[1], ratio[2])
    IN  (stretched * ratio[2] + ratio[1] - 1) \div ratio[1]

\* Variant: pitch_shift without the final util.fix_length.
pitch_shift_unfixed(b, n_steps) ==
    [ b EXCEPT !.len = ResampledLen(b.len, n_steps), !.semitones = n_steps,
               !.cached = FALSE, !.steps = Append(@, "pitch_shift") ]

\* librosa.effects.pitch_shift(audio, sr, n_steps): stretch, resample, then
\* util.fix_length(y_shift, size=len(audio)) pads or cuts to the input's
\* length.
pitch_shift(b, n_steps) ==
    [ b EXCEPT !.len = resize_audio([ len |-> ResampledLen(b.len, n_steps) ],
                                    b.len).len,
               !.semitones = n_steps, !.cached = FALSE,
               !.steps = Append(@, "pitch_shift") ]

\* _apply_lowpass_filter: signal.sosfilt returns a new array of the same
\* length.
apply_lowpass_filter(b, cutoff) ==
    [ b EXCEPT !.cutoff = cutoff, !.cached = FALSE,
               !.steps = Append(@, "lowpass") ]

\* Variant: the transformations write their result into the buffer they
\* were handed.
apply_transformations_in_place(b, p) ==
    LET stretched == time_stretch(b, p)
        shifted == pitch_shift(stretched, PitchShiftSemitones(p))
        filtered == IF WetnessFilterApplies(p)
                    THEN apply_lowpass_filter(shifted, CutoffFreq(p))
                    ELSE shifted
    IN  [ filtered EXCEPT !.transformed = TRUE, !.cached = b.cached ]

\* Variant: the pitch shift made before the time stretch.
apply_transformations_pitch_first(b, p) ==
    LET shifted == pitch_shift(b, PitchShiftSemitones(p))
        stretched == time_stretch(shifted, p)
        filtered == IF WetnessFilterApplies(p)
                    THEN apply_lowpass_filter(stretched, CutoffFreq(p))
                    ELSE stretched
    IN  [ filtered EXCEPT !.transformed = TRUE ]

\* _apply_transformations: time stretch, pitch shift, wetness filter; each
\* of them returns a new array.
apply_transformations(b, p) ==
    LET stretched == time_stretch(b, p)
        shifted == pitch_shift(stretched, PitchShiftSemitones(p))
        filtered == IF WetnessFilterApplies(p)
                    THEN apply_lowpass_filter(shifted, CutoffFreq(p))
                    ELSE shifted
    IN  [ filtered EXCEPT !.transformed = TRUE ]

\* _mix_layers: every layer resized to the base, weighted sum.
mix_layers(b, ls, p) ==
    [ len |-> b.len, base |-> b,
      layers |-> [ k \in DOMAIN ls |-> resize_audio(ls[k], b.len) ] ]

\* fade_samples = int(0.05 * params.sample_rate)
FadeSamples(p) == (5 * p.sample_rate) \div 100

\* The exception _post_process raises, or None.  np.abs(audio).max() in
\* _normalize raises on an empty buffer.  In _apply_fade the ramps of
\* fade_samples values cannot be broadcast onto a shorter buffer, and for
\* fade_samples = 0 the slice audio[-0:] is the whole buffer, onto which
\* the empty ramp cannot be broadcast either.
PostProcessError(m, p) ==
    IF m.len = 0 THEN "ValueError"
    ELSE IF FadeSamples(p) = 0 \/ m.len < FadeSamples(p) THEN "ValueError"
    ELSE None

\* One step of _post_process that returns a buffer of the length it was
\* handed: the scaling of _normalize, np.tanh sample by sample, the ramps
\* of _apply_fade written into the buffer.
SameLengthStep(a, name) == [ a EXCEPT !.steps = Append(@, name) ]

\* ir_length = int(0.5 * sr)
ImpulseResponseLen(p) == (50 * p.sample_rate) \div 100

\* The number of samples signal.convolve(in1, in2, mode) returns for
\* inputs of n and m samples.
ConvolveLen(n, m, mode) ==
    IF mode = "same" THEN n
    ELSE IF mode = "full" THEN n + m - 1
    ELSE Max(n, m) - Min(n, m) + 1

\* The reverb step: _apply_reverb mixes the buffer with its convolution
\* (mode='same') with an impulse response drawn from np.random.
ReverbStep(a, p, np) ==
    [ a EXCEPT !.len = ConvolveLen(a.len, ImpulseResponseLen(p), "same"),
               !.reverb = [ amount |-> p.reverb_amount, np |-> np ],
               !.steps = Append(@, "reverb") ]

\* Variant: the reverb added before the fade.
post_process_reverb_before_fade(m, p, np) ==
    LET mixed_audio == [ len |-> m.len, mix |-> m,
                         reverb |-> [ amount |-> 0, np |-> 0 ],
                         steps |-> << >> ]
        normalized == SameLengthStep(mixed_audio, "normalize")
        limited == SameLengthStep(normalized, "limit")
    IN  IF p.reverb_amount > 0
        THEN SameLengthStep(ReverbStep(limited, p, np), "fade")
        ELSE SameLengthStep(limited, "fade")

\* _post_process: normalize, soft limiter, fade, optional reverb whose
\* impulse response is drawn from np.random.
post_process(m, p, np) ==
    LET mixed_audio == [ len |-> m.len, mix |-> m,
                         reverb |-> [ amount |-> 0, np |-> 0 ],
                         steps |-> << >> ]
        normalized == SameLengthStep(mixed_audio, "normalize")
        limited == SameLengthStep(normalized, "limit")
        faded == SameLengthStep(limited, "fade")
    IN  IF p.reverb_amount > 0 THEN ReverbStep(faded, p, np) ELSE faded

\* Peaks are in thousandths of full scale.
\* _normalize(audio, target_peak=0.95)
TargetPeak == 950

\* np.tanh(audio * 1.2) * 0.9 of a buffer normalized to 0.95:
\* tanh(1.14) * 0.9 = 0.733.  The fade does not raise it.
LimitedPeak == 733

\* _apply_reverb: ir = np.random.normal(0, 1, int(0.5 * sr)) under the
\* envelope exp(-k / (0.2 * sr)).  The taps have energy about 0.1 * sr
\* (4410 at 44100 Hz), so the convolution multiplies the peak of a dense
\* buffer by some tens; the draws decide the exact figure.
MinImpulseResponseGain == 20

ImpulseResponseGain(np) == MinImpulseResponseGain + np

\* A lower bound on the peak of the waveform _post_process returns.  With
\* reverb the result is audio * (1 - amount) + convolve(audio, ir) *
\* amount^2; where the convolution peaks, the dry part is at most
\* LimitedPeak.
FinalPeakAtLeast(au) ==
    IF au.reverb.amount = 0 THEN 0
    ELSE Max(0, (LimitedPeak * ImpulseResponseGain(au.reverb.np)
                   * au.reverb.amount * au.reverb.amount) \div 10000
                - (LimitedPeak * (100 - au.reverb.amount)) \div 100 - 1)

NpAfterPostProcess(p, np) ==
    IF p.reverb_amount > 0 THEN Advance(np) ELSE np

\* Values of a render's locals before they are assigned.
NoBase ==
    [ src |-> {}, len |-> 0, finite |-> TRUE, cached |-> FALSE,
      transformed |-> FALSE, semitones |-> 0, cutoff |-> 0, scale |-> 1,
      steps |-> << >> ]

NoLayers == [ k \in {} |-> 0 ]

NoMixed == [ len |-> 0, base |-> NoBase, layers |-> NoLayers ]

NoAudio ==
    [ len |-> 0, mix |-> NoMixed, reverb |-> [ amount |-> 0, np |-> 0 ],
      steps |-> << >> ]

NoInterpretation ==
    [ duration |-> 0, wetness |-> 0, pitch |-> 0, type |-> None ]

NoParams ==
    [ duration |-> 0, wetness |-> 0, pitch |-> 0, type |-> None,
      reverb_amount |-> 0, distortion |-> 0, randomness_seed |-> 0,
      sample_rate |-> 0 ]

----------------------------------------------------------------------------
(* The numeric helpers on sample values                                    *)
(* A buffer of samples is a sequence of integers s over a common positive  *)
(* denominator den: sample i is s[i] / den.  The arithmetic is exact; the  *)
(* rounding of floating point is not modelled.                             *)

\* The greatest common divisor of den and the samples s[1 .. n].
RECURSIVE GcdSeq(_, _, _)
GcdSeq(s, n, den) ==
    IF n = 0 THEN den ELSE GcdSeq(s, n - 1, Gcd(den, Abs(s[n])))

\* The buffer of the samples s[i] / den, in lowest terms.
Wave(s, den) ==
    LET g == GcdSeq(s, Len(s), den)
    IN  [ s |-> [ i \in 1 .. Len(s) |-> s[i] \div g ], den |-> den \div g ]

Zeros(n) == [ i \in 1 .. n |-> 0 ]

\* audio * (num / den)
WScale(w, num, den) ==
    Wave([ i \in 1 .. Len(w.s) |-> w.s[i] * num ], w.den * den)

\* a + b of two buffers of one length
WAdd(a, b) ==
    IF a.den = b.den
    THEN Wave([ i \in 1 .. Len(a.s) |-> a.s[i] + b.s[i] ], a.den)
    ELSE Wave([ i \in 1 .. Len(a.s) |-> a.s[i] * b.den + b.s[i] * a.den ],
              a.den * b.den)

\* Two buffers hold the same samples.
WEq(a, b) ==
    /\ Len(a.s) = Len(b.s)
    /\ \A i \in 1 .. Len(a.s) : a.s[i] * b.den = b.s[i] * a.den

\* np.abs(audio).max(), as a numerator over audio.den
AbsMax(w) == MaxOf({ Abs(w.s[i]) : i \in 1 .. Len(w.s) })

\* Variant: the zeros put in front of the samples.
resize_samples_padding_head(w, target_length) ==
    IF Len(w.s) = target_length THEN w
    ELSE IF Len(w.s) < target_length
    THEN Wave(Zeros(target_length - Len(w.s)) \o w.s, w.den)
    ELSE Wave(SubSeq(w.s, 1, target_length), w.den)

\* _resize_audio on the samples: np.pad(audio, (0, n - len)) or audio[:n].
resize_samples(w, target_length) ==
    IF Len(w.s) = target_length THEN w
    ELSE IF Len(w.s) < target_length
    THEN Wave(w.s \o Zeros(target_length - Len(w.s)), w.den)
    ELSE Wave(SubSeq(w.s, 1, target_length), w.den)

\* _mix_layers on the samples: the entries of layers are rebound to the
\* resized buffers, then the weighted sum is formed.
mix_samples(b, ls) ==
    LET target_length == Len(b.s)
        resized == [ key \in DOMAIN ls |->
                       resize_samples(ls[key], target_length) ]
        dry == WAdd(WAdd(WScale(b, 60, 100),
                         WScale(resized["noise"], 15, 100)),
                    WScale(resized["rumble"], 20, 100))
    IN  [ layers |-> resized,
          mixed  |-> IF "bubbling" \in DOMAIN ls
                     THEN WScale(WAdd(dry, WScale(resized["bubbling"], 15, 100)),
                                 8, 10)
                     ELSE dry ]

\* Variant: the buffer scaled by target_peak, whatever its peak.
normalize_by_target_only(w) ==
    IF Len(w.s) = 0
    THEN [ error |-> "ValueError", value |-> w ]
    ELSE [ error |-> None, value |-> WScale(w, TargetPeak, 1000) ]

\* _normalize(audio, target_peak=0.95): np.abs(audio).max() raises on an
\* empty array; audio * (target_peak / peak) when the peak is positive, the
\* buffer itself otherwise.
normalize(w) ==
    IF Len(w.s) = 0
    THEN [ error |-> "ValueError", value |-> w ]
    ELSE LET peak == AbsMax(w)
         IN  [ error |-> None,
               value |-> IF peak > 0
                         THEN Wave([ i \in 1 .. Len(w.s) |->
                                       w.s[i] * TargetPeak ],
                                   1000 * peak)
                         ELSE w ]

\* f[1] + ... + f[n]
RECURSIVE SumTo(_, _)
SumTo(f, n) == IF n = 0 THEN 0 ELSE f[n] + SumTo(f, n - 1)

\* signal.convolve(audio, ir, mode='same'): the full convolution, of which
\* the Len(audio) samples around its centre are returned.
convolve_same(w, ir) ==
    LET n == Len(w.s)
        k == Len(ir.s)
        full(t) == SumTo([ j \in 1 .. n |->
                             IF t - j + 1 >= 1 /\ t - j + 1 <= k
                             THEN w.s[j] * ir.s[t - j + 1] ELSE 0 ], n)
        start == (k - 1) \div 2
    IN  Wave([ i \in 1 .. n |-> full(i + start) ], w.den * ir.den)

\* _apply_reverb(audio, amount, sr) with the impulse response it drew;
\* amount is in hundredths.
apply_reverb(w, amount, ir) ==
    LET reverb == WScale(convolve_same(w, ir), amount, 100)
    IN  WAdd(WScale(w, 100 - amount, 100), WScale(reverb, amount, 100))

----------------------------------------------------------------------------
(* generate(): one action per stage *)

serviceVars ==
    << redis, redis_up, cached_by_text, cached_by_dict, last_call >>

\* What only the constructor, ClaudeService and the helper calls change.
paramVars == << candidate, constructed, serviceVars, probe >>
handlerVars == << pc, interp, events, artifact >>
cancelVars == << cancel, cancel_at, overdue >>

Stages == << "seed", "select", "synth", "transform", "mix", "post" >>

\* Number of stages a render at position g has completed.
StagesDone(g) ==
    IF g \in { "returned", "raised", "idle" } THEN Len(Stages)
    ELSE (CHOOSE i \in 1 .. Len(Stages) : Stages[i] = g) - 1

InGenerate(r) == gpc[r] \notin { "idle", "returned", "raised" }

\* generate() is a plain synchronous call: on the event loop no other
\* coroutine runs until it returns; worker threads interleave freely.
CanEnter == threaded \/ running = 0

\* Variant: the stages stop once the wall-clock budget has run out.
CanStepWithinBudget(r) == (threaded \/ running = r) /\ ~overdue[r]

\* Variant: the stages check the caller's cancellation signal.
CanStepUnlessCancelled(r) == (threaded \/ running = r) /\ ~cancel[r]

CanStep(r) == threaded \/ running = r

Release(r) == running' = IF running = r THEN 0 ELSE running

\* A call self.audio.generate(p) by render r.
EnterGenerate(r, p) ==
    /\ CanEnter
    /\ calls < MaxCalls
    /\ calls' = calls + 1
    /\ running' = IF threaded THEN running ELSE r
    /\ params' = [params EXCEPT ![r] = p]
    /\ gpc' = [gpc EXCEPT ![r] = "seed"]
    /\ base' = [base EXCEPT ![r] = NoBase]
    /\ layers' = [layers EXCEPT ![r] = NoLayers]
    /\ mixed' = [mixed EXCEPT ![r] = NoMixed]
    /\ audio' = [audio EXCEPT ![r] = NoAudio]
    /\ attempts' = [attempts EXCEPT ![r] = 0]
    /\ raised' = [raised EXCEPT ![r] = None]
    /\ cancel' = [cancel EXCEPT ![r] = FALSE]
    /\ cancel_at' = [cancel_at EXCEPT ![r] = -1]
    /\ overdue' = [overdue EXCEPT ![r] = FALSE]

\* An exception leaves generate().
Raise(r, kind) ==
    /\ gpc' = [gpc EXCEPT ![r] = "raised"]
    /\ raised' = [raised EXCEPT ![r] = kind]
    /\ Release(r)

\* Variant: random.seed(...) forgotten.
SeedOnlyNumpy(r) ==
    /\ np_state' = SeedState(params[r].randomness_seed)
    /\ py_state' = py_state

\* np.random.seed(params.randomness_seed); random.seed(...)
SeedGenerators(r) ==
    /\ np_state' = SeedState(params[r].randomness_seed)
    /\ py_state' = SeedState(params[r].randomness_seed)

Seed(r) ==
    /\ gpc[r] = "seed"
    /\ CanStep(r)
    /\ SeedGenerators(r)
    /\ gpc' = [gpc EXCEPT ![r] = "select"]
    /\ UNCHANGED << paramVars, handlerVars, cancelVars, threaded, sample_cache,
                    running, calls, params, base, layers, mixed, audio,
                    attempts, raised >>

\* 1. base_audio = self._select_and_load_samples(params.type)
Select(r) ==
    /\ gpc[r] = "select"
    /\ CanStep(r)
    /\ LET samples == sample_cache[params[r].type]
       IN  IF Len(samples) = 0
           THEN /\ Raise(r, "ValueError")
                /\ UNCHANGED << base, py_state >>
           ELSE /\ base' = [base EXCEPT ![r] =
                              select_and_load_samples(samples, py_state)]
                /\ py_state' = AdvanceN(py_state, 2)
                /\ gpc' = [gpc EXCEPT ![r] = "synth"]
                /\ UNCHANGED << raised, running >>
    /\ UNCHANGED << paramVars, handlerVars, cancelVars, threaded, sample_cache,
                    np_state, calls, params, layers, mixed, audio, attempts >>

\* 2. synthesis_layers = self._generate_synthesis_layers(params)
Synth(r) ==
    /\ gpc[r] = "synth"
    /\ CanStep(r)
    /\ LET p == params[r]
       IN  IF SynthesisError(p) # None
           THEN /\ Raise(r, SynthesisError(p))
                /\ UNCHANGED << layers, np_state, py_state >>
           ELSE /\ layers' = [layers EXCEPT ![r] =
                                generate_synthesis_layers(p, np_state, py_state)]
                /\ np_state' = NpAfterSynthesis(p, np_state)
                /\ py_state' = PyAfterSynthesis(p, py_state)
                /\ gpc' = [gpc EXCEPT ![r] = "transform"]
                /\ UNCHANGED << raised, running >>
    /\ UNCHANGED << paramVars, handlerVars, cancelVars, threaded, sample_cache,
                    calls, params, base, mixed, audio, attempts >>

\* Variant: the failed transform is run once more before the exception
\* leaves generate().
TransformRetry(r, kind) ==
    IF attempts[r] < 1
    THEN UNCHANGED << gpc, raised, running, base >>
    ELSE Raise(r, kind) /\ UNCHANGED base

\* Variant: the failed transform is replaced by the untransformed base and
\* the render goes on to mixing.
TransformFallback(r, kind) ==
    /\ gpc' = [gpc EXCEPT ![r] = "mix"]
    /\ base' = [base EXCEPT ![r] =
                  [ @ EXCEPT !.len = DurationSamples(params[r]),
                             !.cached = FALSE ]]
    /\ UNCHANGED << raised, running >>

\* An exception raised inside _apply_transformations: generate() has no
\* handler around the call, so it leaves generate().
TransformFailure(r, kind) ==
    /\ Raise(r, kind)
    /\ UNCHANGED base

\* 3. base_audio = self._apply_transformations(base_audio, params)
Transform(r) ==
    /\ gpc[r] = "transform"
    /\ CanStep(r)
    /\ attempts' = [attempts EXCEPT ![r] = @ + 1]
    /\ LET err == TransformError(base[r], params[r])
       IN  IF err # None
           THEN TransformFailure(r, err)
           ELSE /\ base' = [base EXCEPT ![r] =
                              apply_transformations(base[r], params[r])]
                /\ gpc' = [gpc EXCEPT ![r] = "mix"]
                /\ UNCHANGED << raised, running >>
    /\ UNCHANGED << paramVars, handlerVars, cancelVars, threaded, sample_cache,
                    np_state, py_state, calls, params, layers, mixed, audio >>

\* 4. mixed_audio = self._mix_layers(base_audio, synthesis_layers, params)
Mix(r) ==
    /\ gpc[r] = "mix"
    /\ CanStep(r)
    /\ mixed' = [mixed EXCEPT ![r] = mix_layers(base[r], layers[r], params[r])]
    /\ gpc' = [gpc EXCEPT ![r] = "post"]
    /\ UNCHANGED << paramVars, handlerVars, cancelVars, threaded, sample_cache,
                    np_state, py_state, running, calls, params, base, layers,
                    audio, attempts, raised >>

\* 5. final_audio = self._post_process(mixed_audio, params); return
Post(r) ==
    /\ gpc[r] = "post"
    /\ CanStep(r)
    /\ LET err == PostProcessError(mixed[r], params[r])
       IN  IF err # None
           THEN /\ Raise(r, err)
                /\ UNCHANGED << audio, np_state >>
           ELSE /\ audio' = [audio EXCEPT ![r] =
                               post_process(mixed[r], params[r], np_state)]
                /\ np_state' = NpAfterPostProcess(params[r], np_state)
                /\ gpc' = [gpc EXCEPT ![r] = "returned"]
                /\ Release(r)
                /\ UNCHANGED raised
    /\ UNCHANGED << paramVars, handlerVars, cancelVars, threaded, sample_cache,
                    py_state, calls, params, base, layers, mixed, attempts >>

\* One stage of render r's generate() call.
Stage(r) ==
    \/ Seed(r)
    \/ Select(r)
    \/ Synth(r)
    \/ Transform(r)
    \/ Mix(r)
    \/ Post(r)

----------------------------------------------------------------------------
(* Callers of the engine *)

Scenario(d, w, pt, t) == [ duration |-> d, wetness |-> w, pitch |-> pt, type |-> t ]

\* The example parameter sets of the documentation and the boundary cases.
Scenarios ==
    { Scenario(450, 3, 2, "rumbler"),
      Scenario(80, 1, 7, "squeaker"),
      Scenario(300, 9, 4, "wet"),
      Scenario(250, 6, 6, "stutterer"),
      Scenario(50, 0, 5, "classic"),
      Scenario(1000, 10, 5, "rumbler"),
      Scenario(200, 5, 5, "classic") }

WithDefaults(i, reverb, seed) ==
    [ duration |-> i.duration, wetness |-> i.wetness, pitch |-> i.pitch,
      type |-> i.type, reverb_amount |-> reverb, distortion |-> 0,
      randomness_seed |-> seed, sample_rate |-> DefaultSampleRate ]

\* AudioParameters values a direct caller of generate() passes.
EngineParams ==
    { WithDefaults(i, 0, sd) : i \in Scenarios, sd \in Seeds }
        \cup { WithDefaults(Scenario(300, 9, 4, "wet"), 50, sd) : sd \in Seeds }

\* A smaller set of parameter sets, for the callers that run concurrently
\* with something else (another thread, a cancellation).
SmallParams ==
    { WithDefaults(Scenario(300, 9, 4, "wet"), 50, sd) : sd \in Seeds }
        \cup { WithDefaults(Scenario(80, 1, 7, "squeaker"), 0, 1) }

\* engine.generate(AudioParameters(**p)) for some p of P.
CallWith(r, P) ==
    /\ ~InGenerate(r)
    /\ \E p \in P :
          /\ AudioParameters(p).error = None
          /\ EnterGenerate(r, AudioParameters(p).value)
    /\ UNCHANGED << paramVars, handlerVars, threaded, sample_cache, np_state,
                    py_state >>

Call(r) == CallWith(r, EngineParams)

\* Output sample rates a caller may ask for besides the default.
SampleRates == { 1000, 8000, DefaultSampleRate }

\* Parameter sets with shortest and medium durations at each sample rate.
RateParams ==
    { [ WithDefaults(i, 0, 1) EXCEPT !.sample_rate = sr ] :
        i \in { Scenario(50, 9, 4, "wet"), Scenario(300, 9, 4, "wet"),
                Scenario(50, 0, 5, "classic") },
        sr \in SampleRates }

CallRates(r) == CallWith(r, RateParams)

CallSmall(r) == CallWith(r, SmallParams)

\* The longest duration, at the default sample rate and at the sample rates
\* around the one where int(0.05 * sample_rate) becomes 0.
FadeParams ==
    { WithDefaults(Scenario(1000, 3, 5, "wet"), 0, 2),
      WithDefaults(Scenario(50, 3, 5, "wet"), 0, 2),
      [ WithDefaults(Scenario(1000, 0, 5, "classic"), 0, 1)
          EXCEPT !.sample_rate = 19 ],
      [ WithDefaults(Scenario(1000, 0, 5, "classic"), 0, 1)
          EXCEPT !.sample_rate = 20 ] }

CallFade(r) == CallWith(r, FadeParams)

\* The caller raises its cancellation signal while render r is in progress.
Cancel(r) ==
    /\ InGenerate(r)
    /\ ~cancel[r]
    /\ cancel' = [cancel EXCEPT ![r] = TRUE]
    /\ cancel_at' = [cancel_at EXCEPT ![r] = StagesDone(gpc[r])]
    /\ UNCHANGED << paramVars, handlerVars, threaded, sample_cache, np_state,
                    py_state, running, calls, params, gpc, base, layers, mixed,
                    audio, attempts, raised, overdue >>

\* The wall-clock budget of render r runs out while a stage is running.
BudgetExceeded(r) ==
    /\ InGenerate(r)
    /\ ~overdue[r]
    /\ overdue' = [overdue EXCEPT ![r] = TRUE]
    /\ UNCHANGED << paramVars, handlerVars, threaded, sample_cache, np_state,
                    py_state, running, calls, params, gpc, base, layers, mixed,
                    audio, attempts, raised, cancel, cancel_at >>

\* AudioParameters(**fields) on its own.
Construct ==
    /\ constructed = "pending"
    /\ constructed' = IF AudioParameters(candidate).error = None
                      THEN "ok" ELSE AudioParameters(candidate).error
    /\ UNCHANGED << candidate, serviceVars, handlerVars, cancelVars, threaded,
                    sample_cache, np_state, py_state, running, calls, params,
                    gpc, base, layers, mixed, audio, attempts, raised, probe >>

----------------------------------------------------------------------------
(* GenerationWebSocketHandler.handle_generation *)

Event(status, detail) == [ status |-> status, detail |-> detail ]

Send(r, e) == events' = [events EXCEPT ![r] = Append(@, e)]

InterpretFailedMessage == "Failed to interpret prompt. Please try again."

GenerationFailedMessage == "Generation failed. Please try again."

\* _get_fallback_interpretation: the defaults used when parsing fails.
FallbackInterpretation == Scenario(200, 5, 5, "classic")

\* What interpret_prompt can return: PromptInterpretation checks the field
\* types only, so out-of-range values and unknown types pass through.
Interpretations ==
    { Scenario(450, 3, 2, "rumbler"),
      Scenario(300, 9, 4, "wet"),
      Scenario(250, 2, 6, "stutterer"),
      Scenario(2000, 5, 5, "classic"),
      Scenario(200, 12, 5, "classic"),
      Scenario(200, 5, 5, "loud"),
      FallbackInterpretation }

\* A request arrives: "interpreting" is sent, then interpret_prompt awaited.
H_Receive(r) ==
    /\ pc[r] \in { "idle", "done" }
    /\ calls < MaxCalls
    /\ pc' = [pc EXCEPT ![r] = "claude"]
    /\ events' = [events EXCEPT ![r] = << Event("interpreting", "") >>]
    /\ interp' = [interp EXCEPT ![r] = NoInterpretation]
    /\ artifact' = [artifact EXCEPT ![r] = None]
    /\ params' = [params EXCEPT ![r] = NoParams]
    /\ gpc' = [gpc EXCEPT ![r] = "idle"]
    /\ base' = [base EXCEPT ![r] = NoBase]
    /\ layers' = [layers EXCEPT ![r] = NoLayers]
    /\ mixed' = [mixed EXCEPT ![r] = NoMixed]
    /\ audio' = [audio EXCEPT ![r] = NoAudio]
    /\ attempts' = [attempts EXCEPT ![r] = 0]
    /\ raised' = [raised EXCEPT ![r] = None]
    /\ cancel' = [cancel EXCEPT ![r] = FALSE]
    /\ cancel_at' = [cancel_at EXCEPT ![r] = -1]
    /\ overdue' = [overdue EXCEPT ![r] = FALSE]
    /\ UNCHANGED << paramVars, threaded, sample_cache, np_state, py_state,
                    running, calls >>

\* interpret_prompt returns an interpretation or raises ClaudeAPIError.
H_Interpret(r) ==
    /\ pc[r] = "claude"
    /\ \/ /\ \E i \in Interpretations : interp' = [interp EXCEPT ![r] = i]
          /\ pc' = [pc EXCEPT ![r] = "interpreted"]
          /\ UNCHANGED events
       \/ /\ Send(r, Event("error", InterpretFailedMessage))
          /\ pc' = [pc EXCEPT ![r] = "done"]
          /\ UNCHANGED interp
    /\ UNCHANGED << paramVars, cancelVars, threaded, sample_cache, np_state,
                    py_state, running, calls, params, gpc, base, layers, mixed,
                    audio, attempts, raised, artifact >>

\* Step 3: the interpretation is sent to the user.
H_SendInterpreted(r) ==
    /\ pc[r] = "interpreted"
    /\ Send(r, Event("interpreted", interp[r].type))
    /\ pc' = [pc EXCEPT ![r] = "announce"]
    /\ UNCHANGED << paramVars, cancelVars, threaded, sample_cache, np_state,
                    py_state, running, calls, params, gpc, base, layers, mixed,
                    audio, attempts, raised, artifact, interp >>

\* Step 4, first half: {"status": "generating", "progress": 0} is sent.
H_SendGenerating(r) ==
    /\ pc[r] = "announce"
    /\ Send(r, Event("generating", "0"))
    /\ pc' = [pc EXCEPT ![r] = "construct"]
    /\ UNCHANGED << paramVars, cancelVars, threaded, sample_cache, np_state,
                    py_state, running, calls, params, gpc, base, layers, mixed,
                    audio, attempts, raised, artifact, interp >>

\* Variant: the except branch sends the kind of the exception it caught.
H_GenerateVerbatim(r) ==
    /\ pc[r] = "construct"
    /\ \E seed \in Seeds :
          LET p == AudioParameters(WithDefaults(interp[r], 0, seed))
          IN  IF p.error # None
              THEN /\ Send(r, Event("error", p.error))
                   /\ pc' = [pc EXCEPT ![r] = "done"]
                   /\ UNCHANGED << running, calls, params, gpc, base, layers,
                                   mixed, audio, attempts, raised, cancelVars >>
              ELSE /\ EnterGenerate(r, p.value)
                   /\ pc' = [pc EXCEPT ![r] = "in_generate"]
                   /\ UNCHANGED events
    /\ UNCHANGED << paramVars, threaded, sample_cache, np_state, py_state,
                    artifact, interp >>

\* Step 4, second half: AudioParameters(**interpretation.dict()) and the
\* call of generate().  The seed defaults to the clock, reverb_amount and
\* distortion to 0, sample_rate to 44100.
H_Generate(r) ==
    /\ pc[r] = "construct"
    /\ \E seed \in Seeds :
          LET p == AudioParameters(WithDefaults(interp[r], 0, seed))
          IN  IF p.error # None
              THEN /\ Send(r, Event("error", GenerationFailedMessage))
                   /\ pc' = [pc EXCEPT ![r] = "done"]
                   /\ UNCHANGED << running, calls, params, gpc, base, layers,
                                   mixed, audio, attempts, raised, cancelVars >>
              ELSE /\ EnterGenerate(r, p.value)
                   /\ pc' = [pc EXCEPT ![r] = "in_generate"]
                   /\ UNCHANGED events
    /\ UNCHANGED << paramVars, threaded, sample_cache, np_state, py_state,
                    artifact, interp >>

\* generate() raised: the except Exception branch sends the error.
H_Failed(r) ==
    /\ pc[r] = "in_generate"
    /\ gpc[r] = "raised"
    /\ Send(r, Event("error", GenerationFailedMessage))
    /\ pc' = [pc EXCEPT ![r] = "done"]
    /\ UNCHANGED << paramVars, cancelVars, threaded, sample_cache, np_state,
                    py_state, running, calls, params, gpc, base, layers, mixed,
                    audio, attempts, raised, artifact, interp >>

\* Variant: a failed upload sends the error and falls through to step 6.
H_UploadThenComplete(r) ==
    /\ pc[r] = "in_generate"
    /\ gpc[r] = "returned"
    /\ \/ /\ artifact' = [artifact EXCEPT ![r] = "audio_url"]
          /\ pc' = [pc EXCEPT ![r] = "complete"]
          /\ UNCHANGED events
       \/ /\ Send(r, Event("error", GenerationFailedMessage))
          /\ pc' = [pc EXCEPT ![r] = "complete"]
          /\ UNCHANGED artifact
    /\ UNCHANGED << paramVars, cancelVars, threaded, sample_cache, np_state,
                    py_state, running, calls, params, gpc, base, layers, mixed,
                    audio, attempts, raised, interp >>

\* Variant: a failed upload is ignored and step 6 follows.
H_UploadIgnoringFailure(r) ==
    /\ pc[r] = "in_generate"
    /\ gpc[r] = "returned"
    /\ \/ /\ artifact' = [artifact EXCEPT ![r] = "audio_url"]
          /\ pc' = [pc EXCEPT ![r] = "complete"]
          /\ UNCHANGED events
       \/ /\ pc' = [pc EXCEPT ![r] = "complete"]
          /\ UNCHANGED << artifact, events >>
    /\ UNCHANGED << paramVars, cancelVars, threaded, sample_cache, np_state,
                    py_state, running, calls, params, gpc, base, layers, mixed,
                    audio, attempts, raised, interp >>

\* Step 5: _save_and_upload returns the URL or raises.
H_Upload(r) ==
    /\ pc[r] = "in_generate"
    /\ gpc[r] = "returned"
    /\ \/ /\ artifact' = [artifact EXCEPT ![r] = "audio_url"]
          /\ pc' = [pc EXCEPT ![r] = "complete"]
          /\ UNCHANGED events
       \/ /\ Send(r, Event("error", GenerationFailedMessage))
          /\ pc' = [pc EXCEPT ![r] = "done"]
          /\ UNCHANGED artifact
    /\ UNCHANGED << paramVars, cancelVars, threaded, sample_cache, np_state,
                    py_state, running, calls, params, gpc, base, layers, mixed,
                    audio, attempts, raised, interp >>

\* Step 6: completion is sent.
H_Complete(r) ==
    /\ pc[r] = "complete"
    /\ Send(r, Event("complete", artifact[r]))
    /\ pc' = [pc EXCEPT ![r] = "done"]
    /\ UNCHANGED << paramVars, cancelVars, threaded, sample_cache, np_state,
                    py_state, running, calls, params, gpc, base, layers, mixed,
                    audio, attempts, raised, artifact, interp >>

----------------------------------------------------------------------------
(* ClaudeService.interpret_prompt and its redis cache *)

Prompts == { "long rumbling fart", "test prompt" }

\* A context is a dict or None.  A dict is given by its keys in insertion
\* order (each key stands for its key/value pair); None and {} are << >>.
Contexts == { << >>, << "previous", "feedback" >>, << "feedback", "previous" >> }

\* Two dicts are equal when they hold the same pairs, whatever the order.
DictOf(context) == { context[i] : i \in 1 .. Len(context) }

\* json.dumps writes the pairs in insertion order; json.loads reads back
\* what was written.
json_dumps(d) == [ json |-> d ]

json_loads(text) == text.json

\* f"{prompt}:{json.dumps(context) if context else ''}", then md5; the
\* digest is taken to be one-to-one.
EmptyText == [ json |-> << >> ]

get_cache_key(prompt, context) ==
    << prompt, IF Len(context) = 0 THEN EmptyText ELSE json_dumps(context) >>

CacheKeys == { get_cache_key(pr, c) : pr \in Prompts, c \in Contexts }

\* No entry under a key, no interpretation.
NoEntry == json_dumps(NoInterpretation)

\* What the API answers for a prompt (temperature 0.7: not always the
\* same thing).
ApiAnswers == { Scenario(450, 3, 2, "rumbler"), Scenario(300, 9, 4, "wet") }

\* _get_from_cache: the parsed entry, or None when there is none or redis
\* raises.
get_from_cache(key) ==
    IF redis_up /\ redis[key] # NoEntry
    THEN json_loads(redis[key])
    ELSE NoInterpretation

\* Variant: the setex call left out.
save_to_cache_dropped(key, data) == redis

\* _save_to_cache: setex(key, ttl, json.dumps(data)); a redis error is
\* swallowed.
save_to_cache(key, data) ==
    IF redis_up THEN [redis EXCEPT ![key] = json_dumps(data)] ELSE redis

\* What is on record for a call made now: the interpretation an earlier
\* call obtained from the API and cached, if redis answers.
Expected(book, k) == IF redis_up THEN book[k] ELSE NoInterpretation

CallRecord(prompt, context, result, from_api, error) ==
    [ prompt |-> prompt, context |-> context, result |-> result,
      from_api |-> from_api, error |-> error,
      by_text |-> Expected(cached_by_text, << prompt, json_dumps(context) >>),
      by_dict |-> Expected(cached_by_dict, << prompt, DictOf(context) >>) ]

\* One interpret_prompt(prompt, context) call.  The redis client is
\* synchronous, so the coroutine runs without yielding.
InterpretPrompt(prompt, context) ==
    LET cache_key == get_cache_key(prompt, context)
        cached == get_from_cache(cache_key)
    IN  /\ IF cached # NoInterpretation
           THEN /\ last_call' = CallRecord(prompt, context, cached, FALSE, None)
                /\ UNCHANGED << redis, cached_by_text, cached_by_dict >>
           ELSE \/ \E interpretation \in ApiAnswers :
                     /\ redis' = save_to_cache(cache_key, interpretation)
                     /\ cached_by_text' =
                           IF redis_up
                           THEN [cached_by_text EXCEPT
                                   ![<< prompt, json_dumps(context) >>] =
                                       interpretation]
                           ELSE cached_by_text
                     /\ cached_by_dict' =
                           IF redis_up
                           THEN [cached_by_dict EXCEPT
                                   ![<< prompt, DictOf(context) >>] =
                                       interpretation]
                           ELSE cached_by_dict
                     /\ last_call' = CallRecord(prompt, context,
                                                interpretation, TRUE, None)
                \* anthropic.APIError: ClaudeAPIError is raised
                \/ /\ last_call' = CallRecord(prompt, context, NoInterpretation,
                                               TRUE, "ClaudeAPIError")
                   /\ UNCHANGED << redis, cached_by_text, cached_by_dict >>
                \* the answer cannot be parsed: the fallback, not cached
                \/ /\ last_call' = CallRecord(prompt, context,
                                               FallbackInterpretation, TRUE, None)
                   /\ UNCHANGED << redis, cached_by_text, cached_by_dict >>
        /\ UNCHANGED << candidate, constructed, redis_up, handlerVars,
                        cancelVars, threaded, sample_cache, np_state, py_state,
                        running, calls, params, gpc, base, layers, mixed, audio,
                        attempts, raised, probe >>

\* cache_ttl seconds pass: every entry expires.
Expire ==
    /\ redis' = [k \in CacheKeys |-> NoEntry]
    /\ cached_by_text' = [k \in DOMAIN cached_by_text |-> NoInterpretation]
    /\ cached_by_dict' = [k \in DOMAIN cached_by_dict |-> NoInterpretation]
    /\ UNCHANGED << candidate, constructed, redis_up, last_call, handlerVars,
                    cancelVars, threaded, sample_cache, np_state, py_state,
                    running, calls, params, gpc, base, layers, mixed, audio,
                    attempts, raised, probe >>

\* The redis server goes down or comes back; its entries are kept.
RedisOutage ==
    /\ redis_up' = ~redis_up
    /\ UNCHANGED << candidate, constructed, redis, cached_by_text,
                    cached_by_dict, last_call, handlerVars, cancelVars,
                    threaded, sample_cache, np_state, py_state, running, calls,
                    params, gpc, base, layers, mixed, audio, attempts, raised,
                    probe >>

NoCall ==
    [ prompt |-> "", context |-> << >>, result |-> NoInterpretation,
      from_api |-> FALSE, error |-> None, by_text |-> NoInterpretation,
      by_dict |-> NoInterpretation ]

\* ClaudeService.__init__ over an empty cache.
InitService ==
    /\ redis = [k \in CacheKeys |-> NoEntry]
    /\ redis_up = TRUE
    /\ cached_by_text =
          [k \in { << pr, json_dumps(c) >> : pr \in Prompts, c \in Contexts }
              |-> NoInterpretation]
    /\ cached_by_dict =
          [k \in { << pr, DictOf(c) >> : pr \in Prompts, c \in Contexts }
              |-> NoInterpretation]
    /\ last_call = NoCall

----------------------------------------------------------------------------
(* The numeric helpers called on their own *)

\* longest buffer handed to a helper
MaxLen == 3

SampleValues == { -2, 0, 1 }

\* Buffers of up to MaxLen samples.
Waves ==
    UNION { { Wave(s, 1) : s \in [ 1 .. n -> SampleValues ] } : n \in 0 .. MaxLen }

\* Layers of 0 to MaxLen + 1 samples, every sample different.
Ramp(n) == Wave([ i \in 1 .. n |-> i ], 1)

LayerWaves == { Ramp(n) : n \in 0 .. (MaxLen + 1) }

engineVars ==
    << candidate, constructed, serviceVars, handlerVars, cancelVars, threaded,
       sample_cache, np_state, py_state, running, calls, params, gpc, base,
       layers, mixed, audio, attempts, raised >>

\* self._resize_audio(audio, target_length)
ApplyResize ==
    /\ probe.op = None
    /\ \E w \in Waves \cup LayerWaves, n \in 0 .. (MaxLen + 1) :
          probe' = [ op |-> "_resize_audio", audio |-> w, target_length |-> n,
                     out |-> resize_samples(w, n) ]
    /\ UNCHANGED engineVars

\* self._mix_layers(base, layers, params), without and with bubbling
ApplyMix ==
    /\ probe.op = None
    /\ \E b \in Waves, noise \in LayerWaves, rumble \in LayerWaves :
          \/ LET ls == [ noise |-> noise, rumble |-> rumble ]
             IN  probe' = [ op |-> "_mix_layers", audio |-> b, layers |-> ls,
                            out |-> mix_samples(b, ls) ]
          \/ \E bubbling \in LayerWaves :
                LET ls == [ noise |-> noise, rumble |-> rumble,
                            bubbling |-> bubbling ]
                IN  probe' = [ op |-> "_mix_layers", audio |-> b, layers |-> ls,
                               out |-> mix_samples(b, ls) ]
    /\ UNCHANGED engineVars

\* Buffers to normalize: those of Waves, at full and at a third of their
\* amplitude.
NormalizeInputs == Waves \cup { WScale(w, 1, 3) : w \in Waves }

\* self._normalize(audio, target_peak=0.95)
ApplyNormalize ==
    /\ probe.op = None
    /\ \E w \in NormalizeInputs :
          probe' = [ op |-> "_normalize", audio |-> w,
                     error |-> normalize(w).error, out |-> normalize(w).value ]
    /\ UNCHANGED engineVars

\* Impulse responses of one to three taps.
ImpulseResponses ==
    { Wave(<< 2 >>, 1), Wave(<< 2, 1 >>, 1), Wave(<< 2, -1, 1 >>, 1) }

\* reverb_amount values above 0, in hundredths
ReverbAmounts == { 25, 50, 100 }

\* self._apply_reverb(audio, params.reverb_amount, params.sample_rate),
\* called by _post_process when reverb_amount > 0
ApplyReverb ==
    /\ probe.op = None
    /\ \E w \in Waves, amount \in ReverbAmounts, ir \in ImpulseResponses :
          /\ Len(w.s) > 0
          /\ probe' = [ op |-> "_apply_reverb", audio |-> w, amount |-> amount,
                        ir |-> ir, out |-> apply_reverb(w, amount, ir) ]
    /\ UNCHANGED engineVars

\* No helper called yet.
NoProbe == [ op |-> None ]

----------------------------------------------------------------------------
(* Specifications *)

NoCandidate ==
    [ duration |-> 200, wetness |-> 5, pitch |-> 5, type |-> "classic",
      reverb_amount |-> 0, distortion |-> 0, randomness_seed |-> 1,
      sample_rate |-> DefaultSampleRate ]

\* The generators are not seeded at process start.
InitialGeneratorStates == { 0, 5 }

\* No request received and no generate() call made yet.
InitRenders ==
    /\ InitService
    /\ running = 0
    /\ calls = 0
    /\ pc = [r \in Renders |-> "idle"]
    /\ interp = [r \in Renders |-> NoInterpretation]
    /\ params = [r \in Renders |-> NoParams]
    /\ gpc = [r \in Renders |-> "idle"]
    /\ base = [r \in Renders |-> NoBase]
    /\ layers = [r \in Renders |-> NoLayers]
    /\ mixed = [r \in Renders |-> NoMixed]
    /\ audio = [r \in Renders |-> NoAudio]
    /\ attempts = [r \in Renders |-> 0]
    /\ raised = [r \in Renders |-> None]
    /\ events = [r \in Renders |-> << >>]
    /\ artifact = [r \in Renders |-> None]
    /\ cancel = [r \in Renders |-> FALSE]
    /\ cancel_at = [r \in Renders |-> -1]
    /\ overdue = [r \in Renders |-> FALSE]
    /\ probe = NoProbe

InitEngine ==
    /\ sample_cache \in Libraries
    /\ np_state \in InitialGeneratorStates
    /\ py_state \in InitialGeneratorStates
    /\ InitRenders

\* The websocket handlers of one process, on one event loop.
Init ==
    /\ candidate = NoCandidate
    /\ constructed = "ok"
    /\ threaded = FALSE
    /\ InitEngine

Next ==
    \E r \in Renders :
        \/ H_Receive(r)
        \/ H_Interpret(r)
        \/ H_SendInterpreted(r)
        \/ H_SendGenerating(r)
        \/ H_Generate(r)
        \/ H_Failed(r)
        \/ H_Upload(r)
        \/ H_Complete(r)
        \/ Stage(r)

Spec == Init /\ [][Next]_vars

\* The engine called directly, one generate() at a time.
NextEngine ==
    \E r \in Renders :
        \/ Call(r)
        \/ Stage(r)

SpecEngine == Init /\ [][NextEngine]_vars

\* The engine called from worker threads, whose stages interleave.
InitThreads ==
    /\ candidate = NoCandidate
    /\ constructed = "ok"
    /\ threaded = TRUE
    /\ InitEngine
    /\ sample_cache = SAMPLE_LIBRARY
    /\ np_state = 0
    /\ py_state = 0

NextThreads ==
    \E r \in Renders :
        \/ CallSmall(r)
        \/ Stage(r)

SpecThreads == InitThreads /\ [][NextThreads]_vars

\* The engine called directly, one generate() at a time, by callers that
\* may raise their cancellation signal while their render is in progress.
NextCancel ==
    \E r \in Renders :
        \/ CallSmall(r)
        \/ Stage(r)
        \/ Cancel(r)

SpecCancel == Init /\ [][NextCancel]_vars

\* The websocket handlers, with renders whose wall-clock budget may run out
\* while they are in progress.
NextTimeout ==
    \E r \in Renders :
        \/ Next
        \/ BudgetExceeded(r)

SpecTimeout == Init /\ [][NextTimeout]_vars

\* The websocket handlers over an engine whose library has an empty
\* category.
InitEmpty ==
    /\ candidate = NoCandidate
    /\ constructed = "ok"
    /\ threaded = FALSE
    /\ sample_cache = EmptyCategoryLibrary
    /\ np_state \in InitialGeneratorStates
    /\ py_state \in InitialGeneratorStates
    /\ InitRenders

SpecEmpty == InitEmpty /\ [][Next]_vars

\* Calls of ClaudeService.interpret_prompt, with cache entries expiring
\* and redis outages.
InitClaude ==
    /\ candidate = NoCandidate
    /\ constructed = "ok"
    /\ threaded = FALSE
    /\ sample_cache = SAMPLE_LIBRARY
    /\ np_state = 0
    /\ py_state = 0
    /\ InitRenders

NextClaude ==
    \/ \E prompt \in Prompts, context \in Contexts :
          InterpretPrompt(prompt, context)
    \/ Expire
    \/ RedisOutage

SpecClaude == InitClaude /\ [][NextClaude]_vars

\* The numeric helpers of an idle engine, called on their own.
NextKernels ==
    \/ ApplyResize
    \/ ApplyMix
    \/ ApplyNormalize
    \/ ApplyReverb

SpecKernels == InitClaude /\ [][NextKernels]_vars

\* The engine called directly with several output sample rates.
NextRates ==
    \E r \in Renders :
        \/ CallRates(r)
        \/ Stage(r)

SpecRates == Init /\ [][NextRates]_vars

\* The engine called directly, over the library as documented or one with
\* short recordings.
InitFade ==
    /\ candidate = NoCandidate
    /\ constructed = "ok"
    /\ threaded = FALSE
    /\ sample_cache \in { SAMPLE_LIBRARY, ShortSampleLibrary }
    /\ np_state \in InitialGeneratorStates
    /\ py_state \in InitialGeneratorStates
    /\ InitRenders

NextFade ==
    \E r \in Renders :
        \/ CallFade(r)
        \/ Stage(r)

SpecFade == InitFade /\ [][NextFade]_vars

\* Construction of AudioParameters from candidate field values.
InitParams ==
    /\ candidate \in Candidates
    /\ constructed = "pending"
    /\ threaded = FALSE
    /\ InitEngine

SpecParams == InitParams /\ [][Construct]_vars

----------------------------------------------------------------------------
(* Properties *)

Returned(r) == gpc[r] = "returned"

\* The waveform generate(p) returns when nothing else touches the
\* generators between its seeding and its return.
RenderAlone(p, cache) ==
    LET s0  == SeedState(p.randomness_seed)
        b   == select_and_load_samples(cache[p.type], s0)
        py1 == AdvanceN(s0, 2)
        ls  == generate_synthesis_layers(p, s0, py1)
        np1 == NpAfterSynthesis(p, s0)
        bt  == apply_transformations(b, p)
        m   == mix_layers(bt, ls, p)
    IN  post_process(m, p, np1)

\* C1: two renders with identical parameters and seed, against the same
\* sample store, return identical waveforms, whatever was rendered before.
C1_Determinism ==
    \A r1, r2 \in Renders :
        (Returned(r1) /\ Returned(r2) /\ params[r1] = params[r2])
            => audio[r1] = audio[r2]

\* Two renders with equal parameters have returned, the later one after
\* other generate() calls, with reverb and bubbling drawn.
C1_Witness ==
    /\ calls = MaxCalls
    /\ Returned(1) /\ Returned(2)
    /\ params[1] = params[2]
    /\ params[1].reverb_amount > 0
    /\ audio[1] = audio[2]
    /\ audio[1].len > 0

\* C2: a render run concurrently with others returns the waveform it
\* returns when run alone.
C2_RenderIsolation ==
    \A r \in Renders :
        Returned(r) => audio[r] = RenderAlone(params[r], sample_cache)

\* The ranges the data model states for AudioParameters.
InStatedRanges(c) ==
    /\ c.duration >= 50 /\ c.duration <= 1000
    /\ c.wetness \in 0 .. 10
    /\ c.pitch \in 0 .. 10
    /\ c.type \in { "squeaker", "rumbler", "stutterer", "classic", "wet" }
    /\ c.reverb_amount \in 0 .. 100
    /\ c.distortion \in 0 .. 100
    /\ c.sample_rate > 0

\* C3: construction of AudioParameters succeeds exactly when every field is
\* inside its stated range (sampleRate a positive integer).
C3_ConstructionIffInRange ==
    constructed # "pending"
        => (constructed = "ok" <=> InStatedRanges(candidate))

(* The status stream of one request *)

StatusSeq(r) == [ k \in 1 .. Len(events[r]) |-> events[r][k].status ]

StatusSet(r) == { events[r][k].status : k \in 1 .. Len(events[r]) }

LastStatus(r) ==
    IF Len(events[r]) = 0 THEN None ELSE events[r][Len(events[r])].status

Terminal == { "complete", "error" }

IsPrefix(a, b) == Len(a) <= Len(b) /\ \A k \in 1 .. Len(a) : a[k] = b[k]

\* sq without its last element when that is a terminal event.
BeforeTerminal(sq) ==
    IF Len(sq) > 0 /\ sq[Len(sq)] \in Terminal
    THEN SubSeq(sq, 1, Len(sq) - 1)
    ELSE sq

HasInterpretation(r) == interp[r].type # None

\* C4: a request whose parameters are out of range or malformed is rejected
\* before any pipeline stage runs, with no progress event and no artifact.
C4_InvalidRejectedUpFront ==
    \A r \in Renders :
        (HasInterpretation(r) /\ ~InStatedRanges(WithDefaults(interp[r], 0, 1)))
            => /\ "generating" \notin StatusSet(r)
               /\ gpc[r] = "idle"
               /\ artifact[r] = None

\* C5: the final waveform's length differs from duration * sampleRate by at
\* most the larger of 2% of it and one sample (lengths in hundredths of a
\* sample on both sides).
C5_DurationFidelity ==
    \A r \in Renders :
        Returned(r) =>
            LET target == params[r].duration * params[r].sample_rate
            IN  Abs(100 * audio[r].len - target)
                    <= Max((2 * target) \div 100, 100)

\* C6: the layer set of every render holds noise and rumble, and bubbling
\* exactly when wetness > 5; the mixer is handed the same layers.
C6_LayerSet ==
    \A r \in Renders :
        /\ gpc[r] \in { "transform", "mix", "post", "returned" }
              => DOMAIN layers[r] # {}
        /\ DOMAIN layers[r] # {}
              => DOMAIN layers[r] =
                    IF params[r].wetness > 5
                    THEN { "noise", "rumble", "bubbling" }
                    ELSE { "noise", "rumble" }
        /\ gpc[r] \in { "post", "returned" }
              => DOMAIN mixed[r].layers = DOMAIN layers[r]

\* A render with wetness 10 holds a bubbling layer while one with wetness 0
\* holds none.
C6_Witness ==
    \E r1, r2 \in Renders :
        /\ Returned(r1) /\ params[r1].wetness = 10
        /\ "bubbling" \in DOMAIN layers[r1]
        /\ Returned(r2) /\ params[r2].wetness = 0
        /\ DOMAIN layers[r2] = { "noise", "rumble" }

\* The transform stage of render r was run and failed.
TransformFailed(r) == attempts[r] > 0 /\ ~base[r].transformed

\* C7 (original): a failed transform stage is run again exactly once.
C7_RetriedOnce ==
    \A r \in Renders :
        (TransformFailed(r) /\ pc[r] = "done") => attempts[r] = 2

\* C7 (amended): the transform stage is attempted at most once per render;
\* when it fails it is not run again and the exception leaves generate().
C7_TransformAttemptedOnce ==
    \A r \in Renders :
        /\ attempts[r] <= 1
        /\ TransformFailed(r) => (gpc[r] = "raised" /\ attempts[r] = 1)

\* A request ended after its transform stage failed.
C7_Witness ==
    \E r \in Renders :
        TransformFailed(r) /\ pc[r] = "done" /\ raised[r] = "ParameterError"

\* C8 (original): after the transform failures the render still reaches the
\* complete event and no error is the render's outcome.
C8_FallbackCompletes ==
    \A r \in Renders :
        (TransformFailed(r) /\ pc[r] = "done")
            => (LastStatus(r) = "complete" /\ "error" \notin StatusSet(r))

\* C8 (amended): a failed transform ends the render: nothing is mixed, no
\* artifact is produced, no complete event is sent, and the request ends
\* with the generic error event.
C8_TransformFailureEndsInError ==
    \A r \in Renders :
        TransformFailed(r) =>
            /\ gpc[r] = "raised"
            /\ mixed[r] = NoMixed
            /\ artifact[r] = None
            /\ "complete" \notin StatusSet(r)
            /\ pc[r] \in { "in_generate", "done" }
            /\ pc[r] = "done" =>
                  events[r][Len(events[r])]
                      = Event("error", GenerationFailedMessage)

\* The error event has been sent for a render whose transform failed.
C8_Witness ==
    \E r \in Renders :
        /\ TransformFailed(r)
        /\ pc[r] = "done"
        /\ LastStatus(r) = "error"
        /\ StatusSeq(r) = << "interpreting", "interpreted", "generating", "error" >>

PipelineStages ==
    << "selecting", "synthesizing", "transforming", "mixing", "post_processing" >>

HandlerStages == << "interpreting", "interpreted", "generating" >>

\* The stream is a prefix of `order` followed by at most one terminal
\* event, which is there exactly when the request has ended.
StreamFollows(r, order) ==
    /\ IsPrefix(BeforeTerminal(StatusSeq(r)), order)
    /\ (LastStatus(r) \in Terminal) <=> (pc[r] = "done")

C10_StopsAtNextBoundary ==
    \A r \in Renders :
        cancel_at[r] >= 0 =>
            IF InGenerate(r)
            THEN StagesDone(gpc[r]) <= cancel_at[r] + 1
            ELSE Returned(r) => cancel_at[r] + 1 >= Len(Stages)

\* C10 (amended): the signal never interrupts or stops a render: with the
\* signal raised the next stage can always start, and the waveform returned
\* is the one returned without the signal.
C10_CancelNeverObserved ==
    \A r \in Renders :
        cancel[r] =>
            /\ InGenerate(r) => ENABLED Stage(r)
            /\ Returned(r) => audio[r] = RenderAlone(params[r], sample_cache)

\* A render returned its waveform although the signal was raised during its
\* first stages.
C10_Witness ==
    \E r \in Renders :
        cancel[r] /\ cancel_at[r] <= 1 /\ Returned(r) /\ audio[r].len > 0

ErrorMessages == { InterpretFailedMessage, GenerationFailedMessage }

\* C11 (original): a render whose budget ran out is aborted and reported as
\* a failure: it ends with an error event, no complete event, no artifact.
C11_OverdueRenderFails ==
    \A r \in Renders :
        (overdue[r] /\ pc[r] = "done")
            => /\ LastStatus(r) = "error"
               /\ "complete" \notin StatusSet(r)
               /\ artifact[r] = None

\* C11 (amended): a render whose budget ran out is never aborted: the
\* running stage and every later stage still run, the waveform is the one
\* returned without the overrun, no event reports a timeout, and the render
\* is not run again.
C11_BudgetNeverEnforced ==
    \A r \in Renders :
        overdue[r] =>
            /\ InGenerate(r) => ENABLED Stage(r)
            /\ Returned(r) => audio[r] = RenderAlone(params[r], sample_cache)
            /\ attempts[r] <= 1
            /\ pc[r] \in { "in_generate", "complete", "done" }
            /\ \A k \in 1 .. Len(events[r]) :
                  events[r][k].status = "error"
                      => events[r][k].detail \in ErrorMessages

\* A request whose render overran its budget while in progress has ended
\* with the complete event and an artifact.
C11_Witness ==
    \E r \in Renders :
        /\ overdue[r]
        /\ pc[r] = "done"
        /\ LastStatus(r) = "complete"
        /\ artifact[r] # None

\* The request of r ended because AudioParameters(...) raised.
ValidationFailed(r) ==
    /\ HasInterpretation(r)
    /\ AudioParameters(WithDefaults(interp[r], 0, 1)).error = "ValidationError"
    /\ pc[r] = "done"

SampleIds(samples) == { samples[i].id : i \in 1 .. Len(samples) }

\* C13: every selection from a type with at least one registered asset
\* returns between 1 and 3 assets, no more than are registered, all of them
\* registered under the requested type, and as many distinct assets as were
\* drawn.
C13_SelectionWithinType ==
    [][ \A r \in Renders :
          (gpc[r] = "select" /\ gpc'[r] = "synth")
              => LET samples == sample_cache[params[r].type]
                     drawn == 1 + (py_state % Min(3, Len(samples)))
                     chosen == base'[r].src
                 IN  /\ Len(samples) >= 1
                     /\ Cardinality(chosen) \in 1 .. 3
                     /\ Cardinality(chosen) <= Len(samples)
                     /\ chosen \subseteq SampleIds(samples)
                     /\ Cardinality(chosen) = drawn ]_vars

\* Three of the four classic assets and both wet assets have been selected.
C13_Witness ==
    \E r1, r2 \in Renders :
        /\ params[r1].type = "classic" /\ Cardinality(base[r1].src) = 3
        /\ params[r2].type = "wet" /\ Cardinality(base[r2].src) = 2

\* C14: no render is ever started on, or selects from, a category without
\* assets (the store having failed at startup instead).
C14_EmptyCategoryNeverSelected ==
    \A r \in Renders :
        (InGenerate(r) \/ gpc[r] = "raised")
            => Len(sample_cache[params[r].type]) > 0

\* C15: the sample store is never written after load: no action changes
\* it, the stored array itself is held by a render only between selection
\* and the transform, where it is only read, and no buffer that is mixed,
\* post-processed or returned is a stored array.
C15_StoreNeverWritten ==
    /\ [](\A r \in Renders :
             /\ base[r].cached
                   => gpc[r] \in { "synth", "transform", "raised" }
             /\ ~mixed[r].base.cached
             /\ ~audio[r].mix.base.cached)
    /\ [][sample_cache' = sample_cache]_vars

\* A render that selected a single stored array has returned and another
\* one failed in the transform while holding a stored array; the store is
\* as loaded.
C15_Witness ==
    \E r1, r2 \in Renders :
        /\ Returned(r1) /\ Cardinality(base[r1].src) = 1
        /\ TransformFailed(r2) /\ base[r2].cached
        /\ sample_cache = CorruptLibrary

StoreFinite ==
    \A t \in DOMAIN sample_cache :
        \A i \in 1 .. Len(sample_cache[t]) : sample_cache[t][i].finite

C17_PeakBound ==
    \A r \in Renders :
        Returned(r) => FinalPeakAtLeast(audio[r]) <= TargetPeak + 50

\* _save_and_upload raised for the waveform generate() returned.
ExportFailed(r) == pc[r] = "done" /\ Returned(r) /\ artifact[r] = None

\* C18: complete is sent only after generate() has returned and the upload
\* has returned an artifact reference, which it carries; when the upload
\* fails the request ends with the error event, without complete, and the
\* upload is not attempted again.
C18_CompleteAfterExport ==
    \A r \in Renders :
        /\ pc[r] = "complete" => (Returned(r) /\ artifact[r] # None)
        /\ "complete" \in StatusSet(r)
              => /\ Returned(r)
                 /\ artifact[r] # None
                 /\ events[r][Len(events[r])] = Event("complete", artifact[r])
        /\ ExportFailed(r)
              => /\ LastStatus(r) = "error"
                 /\ "complete" \notin StatusSet(r)
                 /\ ~ENABLED H_Upload(r)

\* One request has completed with its artifact reference and another has
\* ended in the error of a failed upload.
C18_Witness ==
    \E r1, r2 \in Renders :
        /\ LastStatus(r1) = "complete"
        /\ events[r1][Len(events[r1])].detail = "audio_url"
        /\ ExportFailed(r2)
        /\ LastStatus(r2) = "error"

\* C19 (original): once a call has obtained an interpretation from the API
\* for a prompt and a context, every later call with the same prompt and an
\* equal context returns that interpretation without an API call.
C19_CacheHitForEqualContext ==
    last_call.by_dict # NoInterpretation
        => (last_call.result = last_call.by_dict /\ ~last_call.from_api)

\* C19 (amended): the same for a later call with the same prompt and a
\* context with the same JSON text (the same pairs in the same order, or no
\* context both times).
C19_CacheHitForSameContextText ==
    last_call.by_text # NoInterpretation
        => /\ last_call.result = last_call.by_text
           /\ ~last_call.from_api
           /\ last_call.error = None

\* A call with a context has been answered from the cache with what an
\* earlier call obtained from the API.
C19_Witness ==
    /\ last_call.by_text \in ApiAnswers
    /\ last_call.result = last_call.by_text
    /\ ~last_call.from_api
    /\ Len(last_call.context) > 0

\* C20: the procedural generators never fail for a length that valid
\* parameters produce (a render that got past selection never raises before
\* its layers exist), and every layer they return has exactly
\* int(duration * sample_rate) samples.
C20_GeneratorsReturnExactLength ==
    \A r \in Renders :
        /\ (gpc[r] = "raised" /\ base[r].src # {}) => DOMAIN layers[r] # {}
        /\ \A k \in DOMAIN layers[r] :
              gpc[r] \in { "transform", "raised" }
                  => layers[r][k].len = DurationSamples(params[r])

\* C21: a bubbling layer holds exactly 5 * wetness bursts; every burst
\* starts inside the buffer, is 100 to 500 samples long, and adds only to
\* the slice from its start to the smaller of start + length and the end
\* of the buffer, which lies inside [0, length).  A render without wetness
\* above 5 has no bubbling layer.
C21_BurstsInBounds ==
    \A r \in Renders :
        /\ "bubbling" \in DOMAIN layers[r] <=>
              (DOMAIN layers[r] # {} /\ params[r].wetness > 5)
        /\ "bubbling" \in DOMAIN layers[r] =>
              LET b == layers[r].bubbling
              IN  /\ Len(b.bursts) = 5 * params[r].wetness
                  /\ b.len = DurationSamples(params[r])
                  /\ \A i \in 1 .. Len(b.bursts) :
                        LET u == b.bursts[i]
                        IN  /\ u.pos >= 0 /\ u.pos < b.len
                            /\ u.bubble_length >= 100 /\ u.bubble_length <= 500
                            /\ u.end_pos > u.pos /\ u.end_pos <= b.len
                            /\ u.end_pos - u.pos <= u.bubble_length
                            /\ u.end_pos = u.pos + u.bubble_length
                                  \/ u.end_pos = b.len

\* A layer of 45 bursts in a 3000-sample buffer, one of them starting at
\* sample 0, one at the last position drawn (2000), one 100 and one 500
\* samples long.
C21_Witness ==
    \E r \in Renders :
        /\ "bubbling" \in DOMAIN layers[r]
        /\ LET b == layers[r].bubbling
           IN  /\ b.len = 3000
               /\ Len(b.bursts) = 45
               /\ \E i, j, k, l \in 1 .. Len(b.bursts) :
                     /\ b.bursts[i].pos = 0
                     /\ b.bursts[j].pos = 2000
                     /\ b.bursts[k].bubble_length = 100
                     /\ b.bursts[l].bubble_length = 500

\* out is inp resized to n samples: inp itself when it has n samples, its
\* samples followed by zeros when it is shorter, its first n samples when
\* it is longer.
ResizedTo(inp, n, out) ==
    /\ Len(out.s) = n
    /\ Len(inp.s) = n => out = inp
    /\ \A i \in 1 .. n :
          out.s[i] * inp.den = IF i <= Len(inp.s) THEN inp.s[i] * out.den ELSE 0

\* C22: the mixer returns a buffer of exactly as many samples as the
\* transformed base it was handed, after resizing every procedural layer
\* to that length: a shorter layer keeps its samples and gets zeros at the
\* tail, a longer one keeps its first samples, one of that length is
\* unchanged.
C22_MixerLength ==
    /\ probe.op = "_resize_audio"
          => ResizedTo(probe.audio, probe.target_length, probe.out)
    /\ probe.op = "_mix_layers"
          => /\ Len(probe.out.mixed.s) = Len(probe.audio.s)
             /\ DOMAIN probe.out.layers = DOMAIN probe.layers
             /\ \A key \in DOMAIN probe.layers :
                   ResizedTo(probe.layers[key], Len(probe.audio.s),
                             probe.out.layers[key])

\* A base of two samples mixed with a noise layer of one sample (padded),
\* a rumble layer of four (truncated) and a bubbling layer of two
\* (unchanged).
C22_Witness ==
    /\ probe.op = "_mix_layers"
    /\ Len(probe.audio.s) = 2
    /\ "bubbling" \in DOMAIN probe.layers
    /\ probe.layers["noise"].s = << 1 >>
    /\ probe.out.layers["noise"].s = << 1, 0 >>
    /\ probe.layers["rumble"].s = << 1, 2, 3, 4 >>
    /\ probe.out.layers["rumble"].s = << 1, 2 >>
    /\ probe.out.layers["bubbling"] = probe.layers["bubbling"]
    /\ Len(probe.out.mixed.s) = 2

\* The steps a transformed base must have gone through, in order.
ExpectedSteps(count, wetness) ==
    (IF count > 1 THEN << "overlap" >> ELSE << >>)
        \o << "time_stretch", "pitch_shift" >>
        \o (IF wetness > 5 THEN << "lowpass" >> ELSE << >>)

Filtered(b) == \E k \in 1 .. Len(b.steps) : b.steps[k] = "lowpass"

\* C24: a transformed base has been low-pass filtered exactly when wetness
\* is above 5, with cutoff 800 + (10 - wetness) * 200 Hz; for wetness 5 or
\* less it is unfiltered.  Over wetness 6 .. 10 the cutoff decreases
\* strictly with wetness and stays within 800 .. 1600 Hz; wetness 9 gives
\* 1000 Hz.
C24_WetnessFilter ==
    /\ \A r \in Renders :
          LET w == params[r].wetness
          IN  /\ Filtered(base[r]) => base[r].transformed
              /\ base[r].transformed =>
                    /\ Filtered(base[r]) <=> w > 5
                    /\ base[r].cutoff =
                          IF w > 5 THEN 800 + (10 - w) * 200 ELSE 0
    /\ \A w1, w2 \in 6 .. 10 :
          w1 < w2 => CutoffFreq([ wetness |-> w1 ]) > CutoffFreq([ wetness |-> w2 ])
    /\ \A w \in 6 .. 10 : CutoffFreq([ wetness |-> w ]) \in 800 .. 1600
    /\ CutoffFreq([ wetness |-> 9 ]) = 1000

\* A render with wetness 9 has returned a base filtered at 1000 Hz and one
\* with wetness 5 an unfiltered base.
C24_Witness ==
    \E r1, r2 \in Renders :
        /\ Returned(r1) /\ params[r1].wetness = 9
        /\ Filtered(audio[r1].mix.base) /\ audio[r1].mix.base.cutoff = 1000
        /\ Returned(r2) /\ params[r2].wetness = 5
        /\ ~Filtered(audio[r2].mix.base) /\ audio[r2].mix.base.transformed

\* C25: the pitch shift is by (pitch - 5) * 2 semitones, an even integer
\* within -10 .. 10 for every pitch in 0 .. 10 and 0 for pitch 5, and it
\* leaves the number of samples unchanged: the transformed base has the
\* length the time stretch gave it.
C25_PitchShiftKeepsLength ==
    /\ [](\A pitch \in 0 .. 10 :
             LET n_steps == PitchShiftSemitones([ pitch |-> pitch ])
             IN  /\ n_steps = (pitch - 5) * 2
                 /\ n_steps \in -10 .. 10
                 /\ n_steps % 2 = 0
                 /\ pitch = 5 => n_steps = 0)
    /\ [][ \A r \in Renders :
             (gpc[r] = "transform" /\ gpc'[r] = "mix")
                 => /\ base'[r].semitones = (params[r].pitch - 5) * 2
                    /\ base'[r].len = StretchedLen(base[r].len, params[r])
                    /\ base'[r].len =
                          pitch_shift(time_stretch(base[r], params[r]),
                                      base'[r].semitones).len ]_vars

\* Two renders have returned, one shifted down by 6 semitones and one up
\* by 4, each base as long as its time stretch left it.
C25_Witness ==
    \E r1, r2 \in Renders :
        /\ Returned(r1) /\ base[r1].semitones = -6
        /\ Returned(r2) /\ base[r2].semitones = 4
        /\ \A r \in { r1, r2 } :
              /\ base[r].len > 0
              /\ \E i \in 1 .. Len(sample_cache[params[r].type]) :
                    base[r].len =
                        StretchedLen(sample_cache[params[r].type][i].len,
                                     params[r])

Sign(x) == IF x > 0 THEN 1 ELSE IF x < 0 THEN -1 ELSE 0

\* C26: normalize returns an all-zero buffer unchanged; any other buffer it
\* scales so that the absolute peak is 0.95, keeping the length and the
\* sign of every sample; normalizing the result again changes nothing.
C26_Normalize ==
    (probe.op = "_normalize" /\ probe.error = None)
        => LET a == probe.audio
               o == probe.out
           IN  /\ Len(o.s) = Len(a.s)
               /\ AbsMax(a) = 0 => o = a
               /\ AbsMax(a) > 0 =>
                     /\ 1000 * AbsMax(o) = 950 * o.den
                     /\ \A i \in 1 .. Len(a.s) : Sign(o.s[i]) = Sign(a.s[i])
               /\ normalize(o).error = None
               /\ WEq(normalize(o).value, o)

\* A buffer with samples of both signs and peak 2/3 has been normalized
\* to peak 0.95.
C26_Witness ==
    /\ probe.op = "_normalize"
    /\ probe.audio = Wave(<< 1, -2, 0 >>, 3)
    /\ WEq(probe.out, Wave(<< 475, -950, 0 >>, 1000))

C28_ReverbCrossFade ==
    probe.op = "_apply_reverb"
        => LET dry == probe.audio
               wet == convolve_same(dry, probe.ir)
           IN  /\ Len(probe.out.s) = Len(dry.s)
               /\ WEq(probe.out,
                      WAdd(WScale(dry, 100 - probe.amount, 100),
                           WScale(wet, probe.amount, 100)))
               /\ probe.amount = 100 => WEq(probe.out, wet)

\* C29: every buffer that reaches _post_process is at least as long as
\* the fade, int(0.05 * sample_rate) samples, which is at least 1, and
\* _post_process does not fail on it.
C29_FadeFitsBuffer ==
    \A r \in Renders :
        mixed[r] # NoMixed
            => /\ FadeSamples(params[r]) >= 1
               /\ mixed[r].len >= FadeSamples(params[r])
               /\ gpc[r] # "raised"

\* C30: for every render with wetness 6 .. 10 the cutoff is strictly below
\* the Nyquist frequency sample_rate / 2, and the transform does not fail.
C30_CutoffBelowNyquist ==
    \A r \in Renders :
        (params[r] # NoParams /\ params[r].wetness \in 6 .. 10)
            => /\ 2 * CutoffFreq(params[r]) < params[r].sample_rate
               /\ ~TransformFailed(r)

====
